---- MODULE Spec2Model ----
(***************************************************************************)
(* Order lifecycle and inventory consistency of the order-management API.  *)
(*                                                                         *)
(* The database holds Product rows (stock quantity, price) and Order rows  *)
(* (user, product, quantity, total_price, status).  Model methods          *)
(* (Order.save, Order.cancel_order) work on in-memory instances: an Order  *)
(* instance carries its own copy of the Product row (self.product), read   *)
(* when the instance was loaded, and Product.save writes that copy back.   *)
(***************************************************************************)
EXTENDS Integers, Sequences, FiniteSets, TLC

(* ---------------------------- bounds ----------------------------------- *)
NumProducts == 2
MaxStock == 2
MaxQty == 3
MaxPrice == 2
MaxOrders == 2
MaxEntries == 2
NumWorkers == 2
MaxCategories == 2
MaxNameLen == 1
MaxUsernameLen == 2
MaxAccounts == 4

(* ---------------------------- domains ---------------------------------- *)
Products == 1..NumProducts
\* a product id that names no stored product
UnknownProduct == 0
\* quantities a request asks for
Quantities == 1..MaxQty
Prices == 1..MaxPrice
OrderIds == 1..MaxOrders
\* the server's workers, each serving one request at a time
Workers == 1..NumWorkers

\* User rows: one ordinary customer and one staff member
Users == {"customer", "staff"}
is_staff(u) == u = "staff"

STATUS_CHOICES == {"pending", "shipped", "delivered", "cancelled"}

\* forms in which a request can carry product_id: not at all, as a UUID in
\* dashed form, or as the 32-digit hex form of a UUID made of decimal digits
NoProductId == <<UnknownProduct, "absent">>
RequestProductIds == {NoProductId} \cup (Products \X {"dashed", "digits"})

VARIABLES
    stock,      \* Product.quantity of every stored product
    price,      \* Product.price of every stored product
    orders,     \* stored Order rows, indexed by primary key
    req,        \* the order-creation request being served, if any
    last,       \* the step just taken: the operation, its outcome, the order
                \* it addressed, the quantity asked for and the one stored
                \* before, and the keys of the errors reported
    inflight,   \* the order-creation requests served side by side, by worker
    categories, \* stored Category rows: the name of every stored category
    products,   \* stored Product rows: the name and category of every one
    accounts    \* stored User rows

vars == <<stock, price, orders, req, last, inflight, categories, products,
          accounts>>

\* what the order endpoints and the Order model's methods, serving one
\* request at a time, never touch
beyond_orders == <<inflight, categories, products, accounts>>

Idle == [state |-> "idle"]

\* the record of a step
Step(op, code, order, quantity, old, errors) ==
    [op |-> op, code |-> code, order |-> order, quantity |-> quantity,
     old_quantity |-> old, errors |-> errors]

\* the record of a step that answers with stored rows
Listing(op, code, returned) ==
    [op |-> op, code |-> code, order |-> 0, quantity |-> 0,
     old_quantity |-> 0, errors |-> {}, returned |-> returned]

(* ------------------------- instances ----------------------------------- *)
\* Product.objects.get(pk=p): an in-memory copy of the row
ProductInstance(p) ==
    [id |-> p, quantity |-> stock[p], price |-> price[p]]

\* Order.objects.get(pk=o): the row with its product loaded on access
OrderInstance(o) ==
    [pk |-> o,
     user |-> orders[o].user,
     product |-> ProductInstance(orders[o].product),
     quantity |-> orders[o].quantity,
     total_price |-> orders[o].total_price,
     status |-> orders[o].status]

\* Order(**order_data): a new instance; the UUID default gives it a primary
\* key that no stored row has yet, and status defaults to "pending"
NewOrder(user, product, quantity) ==
    [pk |-> Len(orders) + 1,
     user |-> user,
     product |-> product,
     quantity |-> quantity,
     total_price |-> 0,
     status |-> "pending"]

\* the row written by models.Model.save for an Order instance
OrderRow(self) ==
    [user |-> self.user,
     product |-> self.product.id,
     quantity |-> self.quantity,
     total_price |-> self.total_price,
     status |-> self.status]

\* models.Model.save of an Order instance: update the row with this primary
\* key, or insert it
StoreOrder(self) ==
    IF self.pk \in DOMAIN orders
    THEN [orders EXCEPT ![self.pk] = OrderRow(self)]
    ELSE Append(orders, OrderRow(self))

\* Product.save: writes every field of the in-memory copy to the row
ProductSaveStock(product) == [stock EXCEPT ![product.id] = product.quantity]
ProductSavePrice(product) == [price EXCEPT ![product.id] = product.price]

Abs(n) == IF n < 0 THEN -n ELSE n

(* --------------------------- Order.save -------------------------------- *)
\* the quantity of the stored row with this primary key, 0 when there is none
old_quantity(self) ==
    IF self.pk \in DOMAIN orders THEN orders[self.pk].quantity ELSE 0

\* a difference that takes every save for the first one
quantity_difference_from_nothing(self) == self.quantity

quantity_difference(self) == self.quantity - old_quantity(self)

\* an Order.save without its stock test
SaveNeverRaises(self) == FALSE

\* the stock test of Order.save, applied only to an increase
SaveRaises(self) ==
    /\ quantity_difference(self) > 0
    /\ self.product.quantity < self.quantity

\* a stock adjustment that deducts the whole new quantity on an increase
AdjustedProductWholeQuantity(self) ==
    LET d == quantity_difference(self)
    IN  [self.product EXCEPT !.quantity =
            IF d > 0 THEN @ - self.quantity
            ELSE IF d < 0 THEN @ + Abs(d)
            ELSE @]

\* self.product after the stock adjustment
AdjustedProduct(self) ==
    LET d == quantity_difference(self)
    IN  [self.product EXCEPT !.quantity =
            IF d > 0 THEN @ - d
            ELSE IF d < 0 THEN @ + Abs(d)
            ELSE @]

\* a total computed from the stored quantity instead of the new one
TotalPriceOfOldQuantity(self, product) == old_quantity(self) * product.price

TotalPrice(self, product) == self.quantity * product.price

\* the instance as Order.save stores it
SavedOrder(self) ==
    LET product == AdjustedProduct(self)
    IN  [self EXCEPT !.product = product,
                     !.total_price = TotalPrice(self, product)]

\* a save that writes the product row and loses the order row
OrderSaveProductOnly(self) ==
    /\ stock' = ProductSaveStock(SavedOrder(self).product)
    /\ price' = ProductSavePrice(SavedOrder(self).product)
    /\ orders' = orders

\* the database after a save that does not raise: the product row and the
\* order row are written in one transaction
OrderSave(self) ==
    /\ stock' = ProductSaveStock(SavedOrder(self).product)
    /\ price' = ProductSavePrice(SavedOrder(self).product)
    /\ orders' = StoreOrder(SavedOrder(self))

(* ------------------------ Order.cancel_order --------------------------- *)
\* a cancel_order without its guard
AlreadyCancelledUnchecked(self) == FALSE

AlreadyCancelled(self) == self.status = "cancelled"

\* a cancel_order that leaves the stock alone
RestoredProductUntouched(self) == self.product

RestoredProduct(self) ==
    [self.product EXCEPT !.quantity = @ + self.quantity]

\* the instance as cancel_order stores it (models.Model.save, which does not
\* recompute total_price)
CancelledOrder(self) ==
    [self EXCEPT !.product = RestoredProduct(self), !.status = "cancelled"]

(* --------------------------- OrderViewSet ------------------------------ *)
\* a queryset that is not narrowed to the requester
VisibleToAll(u, o) == o \in DOMAIN orders

\* get_queryset: staff reach every order, other users their own
Visible(u, o) ==
    /\ o \in DOMAIN orders
    /\ (is_staff(u) \/ orders[o].user = u)

\* a validation that only looks the product up
EntryValidWithoutStock(e) == e.product_id \in DOMAIN products

\* OrderSerializer field validation and validate() for one entry: the
\* product must exist and the quantity must not exceed its stock
EntryValid(e) ==
    /\ e.product_id \in DOMAIN products
    /\ ~(e.quantity > ProductInstance(e.product_id).quantity)

\* a validation that lets an empty list through
BulkValidOrEmpty(es) == \A i \in DOMAIN es : EntryValid(es[i])

\* BulkOrderSerializer.to_internal_value and the validation of every entry
BulkValid(es) ==
    /\ es # <<>>
    /\ \A i \in DOMAIN es : EntryValid(es[i])

\* validated entries handed over last entry first
ValidatedDataReversed(es) ==
    [i \in DOMAIN es |->
        [product |-> ProductInstance(es[Len(es) + 1 - i].product_id),
         quantity |-> es[Len(es) + 1 - i].quantity]]

\* validated_data["orders"]: each entry holds the Product instance that the
\* product_id field fetched for it during validation
ValidatedData(es) ==
    [i \in DOMAIN es |->
        [product |-> ProductInstance(es[i].product_id),
         quantity |-> es[i].quantity]]

\* send_order_email is a plain function: it has no attribute 'delay'
send_order_email_has_delay == FALSE

\* the entries of a creation request: any stored product with any quantity,
\* or an entry that names no stored product
Entries ==
    [product_id : Products, quantity : Quantities]
        \cup {[product_id |-> UnknownProduct, quantity |-> 1]}
EntryLists == UNION {[1..n -> Entries] : n \in 0..MaxEntries}

\* the keys of the field errors the serializer reports for an entry
EntryErrors(e) ==
    IF e.product_id \notin DOMAIN products THEN {"product_id"}
    ELSE IF ~EntryValid(e) THEN {"quantity"}
    ELSE {}

\* the error keys of the 400 response to an invalid creation request
BulkErrors(es) ==
    IF es = <<>> THEN {"orders"}
    ELSE UNION {EntryErrors(es[i]) : i \in DOMAIN es}

(* ------------------------- names and addresses ------------------------- *)
\* the letters names and addresses are written with
Chars == {"a", "A", "b"}

\* str.lower(), and the case folding of an iexact lookup, on one letter
LowerChar(c) == IF c = "A" THEN "a" ELSE c

Lower(s) == [i \in DOMAIN s |-> LowerChar(s[i])]

\* the strings of at most n letters; the empty one stands for a field that
\* is missing or blank
Strings(n) == UNION {[1..k -> Chars] : k \in 0..n}

(* ----------------------------- catalogue ------------------------------- *)
CategoryIds == 1..MaxCategories
CategoryNames == Strings(MaxNameLen)
ProductNames == {<<"a">>, <<"b">>}

\* the catalogue the orders are placed on: one category holding every product
InitialCategories == [c \in {1} |-> <<"a">>]
InitialProducts == [p \in Products |-> [name |-> <<"b">>, category |-> 1]]

(* ------------------------------ accounts ------------------------------- *)
\* the letters usernames are written with; "wide_a" is the full-width
\* letter a, which NFKC normalisation turns into "a"
UsernameChars == {"a", "b", "c", "wide_a"}
Usernames == UNION {[1..k -> UsernameChars] : k \in 0..MaxUsernameLen}

\* an address name@domain; the one with empty parts stands for a missing or
\* blank email field
Emails == [name : Strings(MaxNameLen), domain : Strings(MaxNameLen)]
NoEmail == [name |-> <<>>, domain |-> <<>>]
WellFormed(email) == email.name # <<>> /\ email.domain # <<>>

\* the accounts behind the two users that place the requests, in the order
\* they were stored
InitialAccounts ==
    <<[username |-> <<"c">>, is_staff |-> FALSE,
       email |-> [name |-> <<"a">>, domain |-> <<"a">>]],
      [username |-> <<"b">>, is_staff |-> TRUE,
       email |-> [name |-> <<"b">>, domain |-> <<"a">>]]>>

Init ==
    /\ stock = [p \in Products |-> MaxStock]
    /\ price = [p \in Products |-> 1]
    /\ orders = <<>>
    /\ req = Idle
    /\ last = Step("init", "", 0, 0, 0, {})
    /\ inflight = [w \in Workers |-> Idle]
    /\ categories = InitialCategories
    /\ products = InitialProducts
    /\ accounts = InitialAccounts

\* POST /orders/: validation of the whole request
OrderCreate(u, es) ==
    /\ req = Idle
    /\ Len(orders) + Len(es) <= MaxOrders
    /\ IF BulkValid(es)
       THEN /\ req' = [state |-> "saving", user |-> u,
                       todo |-> ValidatedData(es)]
            /\ last' = Step("create", "validated", 0, 0, 0, {})
       ELSE /\ req' = Idle
            /\ last' = Step("create", "400", 0, 0, 0, BulkErrors(es))
    /\ UNCHANGED <<stock, price, orders>>
    /\ UNCHANGED beyond_orders

\* BulkOrderSerializer.create: Order.objects.create for the next entry
OrderCreateEntry ==
    /\ req.state = "saving"
    /\ req.todo # <<>>
    /\ LET order_data == Head(req.todo)
           self == NewOrder(req.user, order_data.product, order_data.quantity)
       IN  IF SaveRaises(self)
           THEN /\ req' = Idle
                /\ last' = Step("create_entry", "ValueError", self.pk,
                                 self.quantity, 0, {})
                /\ UNCHANGED <<stock, price, orders>>
           ELSE /\ OrderSave(self)
                /\ req' = [req EXCEPT !.todo = Tail(@)]
                /\ last' = Step("create_entry", "saved", self.pk,
                                 self.quantity, 0, {})
    /\ UNCHANGED beyond_orders

\* the rest of OrderViewSet.create: send_order_email.delay and the response
OrderCreateRespond ==
    /\ req.state = "saving"
    /\ req.todo = <<>>
    /\ req' = Idle
    /\ last' = Step("create_response",
                     IF send_order_email_has_delay THEN "201" ELSE "500",
                     0, 0, 0, {})
    /\ UNCHANGED <<stock, price, orders>>
    /\ UNCHANGED beyond_orders

\* a destroy that reopens the order
DestroyedOrderReopened(order) == [order EXCEPT !.status = "pending"]

\* the instance as OrderViewSet.destroy hands it to Order.save
DestroyedOrder(order) == [order EXCEPT !.status = "cancelled"]

\* DELETE /orders/{id}/
OrderDestroy(u, o) ==
    /\ req = Idle
    /\ IF ~Visible(u, o)
       THEN /\ last' = Step("destroy", "404", o, 0, 0, {})
            /\ UNCHANGED <<stock, price, orders>>
       ELSE LET self == DestroyedOrder(OrderInstance(o))
            IN  IF SaveRaises(self)
                THEN /\ last' = Step("destroy", "500", o, 0, 0, {})
                     /\ UNCHANGED <<stock, price, orders>>
                ELSE /\ OrderSave(self)
                     /\ last' = Step("destroy", "200", o, 0, 0, {})
    /\ UNCHANGED req
    /\ UNCHANGED beyond_orders

\* a status test that refuses cancelled orders only
NotPendingOnlyCancelled(order) == order.status = "cancelled"

\* the status test of OrderViewSet.update
NotPending(order) == order.status # "pending"

\* int(request_product_id) raises ValueError on the dashed form of a UUID
IntRaises(pid) == pid[2] = "dashed"

\* int(request_product_id) != order.product.id compares an int with the
\* UUID primary key of the product: the two are never equal
ProductIdDiffers(pid, product) == TRUE

\* the status OrderViewSet.update answers with; "save" stands for the case
\* in which serializer.save() is reached
UpdateOutcome(u, o, pid, quantity) ==
    IF ~Visible(u, o) THEN "404"
    ELSE IF NotPending(OrderInstance(o)) THEN "400"
    ELSE IF pid # NoProductId /\ IntRaises(pid) THEN "500"
    ELSE IF pid # NoProductId /\ ProductIdDiffers(pid, OrderInstance(o).product)
         THEN "400"
    \* super().update: product_id is a required field (PUT), and validate()
    \* demands a product when the field was skipped (PATCH)
    ELSE IF pid = NoProductId THEN "400"
    ELSE IF quantity > ProductInstance(pid[1]).quantity THEN "400"
    ELSE "save"

\* PUT or PATCH /orders/{id}/
OrderUpdate(u, o, pid, quantity) ==
    /\ req = Idle
    /\ LET outcome == UpdateOutcome(u, o, pid, quantity)
       IN  IF outcome # "save"
           THEN /\ last' = Step("update", outcome, o, 0, 0, {})
                /\ UNCHANGED <<stock, price, orders>>
           ELSE LET self == [OrderInstance(o) EXCEPT
                                !.product = ProductInstance(pid[1]),
                                !.quantity = quantity]
                IN  IF SaveRaises(self)
                    THEN /\ last' = Step("update", "500", o, 0, 0, {})
                         /\ UNCHANGED <<stock, price, orders>>
                    ELSE /\ OrderSave(self)
                         /\ last' = Step("update", "200", o, 0, 0, {})
    /\ UNCHANGED req
    /\ UNCHANGED beyond_orders

\* Order.cancel_order on a freshly loaded order
CancelOrder(o) ==
    /\ req = Idle
    /\ o \in DOMAIN orders
    /\ LET self == OrderInstance(o)
       IN  IF AlreadyCancelled(self)
           THEN /\ last' = Step("cancel_order", "ValueError", o, 0, 0, {})
                /\ UNCHANGED <<stock, price, orders>>
           ELSE /\ RestoredProduct(self).quantity <= MaxStock
                /\ stock' = ProductSaveStock(CancelledOrder(self).product)
                /\ price' = ProductSavePrice(CancelledOrder(self).product)
                /\ orders' = StoreOrder(CancelledOrder(self))
                /\ last' = Step("cancel_order", "returned", o, 0, 0, {})
    /\ UNCHANGED req
    /\ UNCHANGED beyond_orders

\* Order.save on a freshly loaded order whose quantity and status the
\* caller has set (the admin site's change form, a ModelSerializer update)
OrderSaveExisting(o, quantity, status) ==
    /\ req = Idle
    /\ o \in DOMAIN orders
    /\ LET self == [OrderInstance(o) EXCEPT !.quantity = quantity,
                                            !.status = status]
       IN  IF SaveRaises(self)
           THEN /\ last' = Step("save", "ValueError", o, quantity,
                                 old_quantity(self), {})
                /\ UNCHANGED <<stock, price, orders>>
           ELSE /\ AdjustedProduct(self).quantity <= MaxStock
                /\ OrderSave(self)
                /\ last' = Step("save", "returned", o, quantity,
                                 old_quantity(self), {})
    /\ UNCHANGED req
    /\ UNCHANGED beyond_orders

(* ------------------- ProductViewSet, CategoryViewSet ------------------- *)
\* a permission that lets every user through
IsAdminUserForAnyone(u) == TRUE

\* rest_framework.permissions.IsAdminUser
IsAdminUser(u) == is_staff(u)

\* rest_framework.permissions.IsAuthenticated: every user of the model is
IsAuthenticated(u) == u \in Users

\* get_permissions of both viewsets
Permitted(action, u) ==
    IF action \in {"create", "update", "partial_update", "destroy"}
    THEN IsAdminUser(u)
    ELSE IsAuthenticated(u)

\* PATCH /products/{id}/ with a new price: staff only
ProductUpdate(u, p, new_price) ==
    /\ req = Idle
    /\ IF ~Permitted("partial_update", u)
       THEN /\ UNCHANGED price
            /\ last' = Step("product_update", "403", 0, 0, 0, {})
       ELSE IF p \notin DOMAIN products
       THEN /\ UNCHANGED price
            /\ last' = Step("product_update", "404", 0, 0, 0, {})
       ELSE /\ price' = [price EXCEPT ![p] = new_price]
            /\ last' = Step("product_update", "200", 0, 0, 0, {})
    /\ UNCHANGED <<stock, orders, req>>
    /\ UNCHANGED beyond_orders

\* a name comparison that minds letter case
Exact(a, b) == a = b

\* name__iexact
IExact(a, b) == Lower(a) = Lower(b)

\* the primary key of a new row: a UUID no stored row has
NewId(ids, used) ==
    CHOOSE x \in ids \ used : \A y \in ids \ used : x <= y

\* on_delete=CASCADE: the database without the products ps and their orders.
\* The rows that stay keep their order and move up in the sequence; no
\* request holds the key of an order while another is being served.
CascadeProducts(ps) ==
    /\ products' = [p \in DOMAIN products \ ps |-> products[p]]
    /\ stock' = [p \in Products |-> IF p \in ps THEN 0 ELSE stock[p]]
    /\ price' = [p \in Products |-> IF p \in ps THEN 1 ELSE price[p]]
    /\ orders' = SelectSeq(orders, LAMBDA row : row.product \notin ps)

\* POST /products/
ProductCreate(u, name, c, new_price, quantity) ==
    /\ req = Idle
    /\ DOMAIN products # Products
    /\ IF ~Permitted("create", u)
       THEN /\ last' = Step("product_create", "403", 0, 0, 0, {})
            /\ UNCHANGED <<stock, price, products>>
       ELSE IF \E p \in DOMAIN products :
                  IExact(products[p].name, name) /\ price[p] = new_price
       THEN /\ last' = Step("product_create", "400", 0, 0, 0, {"message"})
            /\ UNCHANGED <<stock, price, products>>
       ELSE IF name = <<>> \/ c \notin DOMAIN categories
       THEN /\ last' = Step("product_create", "400", 0, 0, 0,
                             (IF name = <<>> THEN {"name"} ELSE {})
                               \cup (IF c \notin DOMAIN categories
                                     THEN {"category"} ELSE {}))
            /\ UNCHANGED <<stock, price, products>>
       ELSE LET new == NewId(Products, DOMAIN products)
            IN  /\ products' =
                      [p \in DOMAIN products \cup {new} |->
                          IF p = new THEN [name |-> name, category |-> c]
                          ELSE products[p]]
                /\ stock' = [stock EXCEPT ![new] = quantity]
                /\ price' = [price EXCEPT ![new] = new_price]
                /\ last' = Step("product_create", "201", 0, 0, 0, {})
    /\ UNCHANGED <<orders, req, inflight, categories, accounts>>

\* DELETE /products/{id}/
ProductDestroy(u, p) ==
    /\ req = Idle
    /\ IF ~Permitted("destroy", u)
       THEN /\ last' = Step("product_destroy", "403", 0, 0, 0, {})
            /\ UNCHANGED <<stock, price, orders, products>>
       ELSE IF p \notin DOMAIN products
       THEN /\ last' = Step("product_destroy", "404", 0, 0, 0, {})
            /\ UNCHANGED <<stock, price, orders, products>>
       ELSE /\ CascadeProducts({p})
            /\ last' = Step("product_destroy", "200", 0, 0, 0, {})
    /\ UNCHANGED <<req, inflight, categories, accounts>>

\* GET /products/
ProductList(u) ==
    /\ req = Idle
    /\ last' = IF Permitted("list", u)
                THEN Listing("product_list", "200", DOMAIN products)
                ELSE Listing("product_list", "403", {})
    /\ UNCHANGED <<stock, price, orders, req>>
    /\ UNCHANGED beyond_orders

\* GET /products/{id}/
ProductRetrieve(u, p) ==
    /\ req = Idle
    /\ last' = IF ~Permitted("retrieve", u)
                THEN Listing("product_retrieve", "403", {})
                ELSE IF p \notin DOMAIN products
                THEN Listing("product_retrieve", "404", {})
                ELSE Listing("product_retrieve", "200", {p})
    /\ UNCHANGED <<stock, price, orders, req>>
    /\ UNCHANGED beyond_orders

\* POST /categories/
CategoryCreate(u, name) ==
    /\ req = Idle
    /\ DOMAIN categories # CategoryIds
    /\ IF ~Permitted("create", u)
       THEN /\ last' = Step("category_create", "403", 0, 0, 0, {})
            /\ UNCHANGED categories
       ELSE IF \E c \in DOMAIN categories : IExact(categories[c], name)
       THEN /\ last' = Step("category_create", "400", 0, 0, 0, {"message"})
            /\ UNCHANGED categories
       \* CategorySerializer: name is required, not blank, and unique
       ELSE IF name = <<>> \/ \E c \in DOMAIN categories : categories[c] = name
       THEN /\ last' = Step("category_create", "400", 0, 0, 0, {"name"})
            /\ UNCHANGED categories
       ELSE LET new == NewId(CategoryIds, DOMAIN categories)
            IN  /\ categories' =
                      [c \in DOMAIN categories \cup {new} |->
                          IF c = new THEN name ELSE categories[c]]
                /\ last' = Step("category_create", "201", 0, 0, 0, {})
    /\ UNCHANGED <<stock, price, orders, req, inflight, products, accounts>>

\* PUT or PATCH /categories/{id}/
CategoryUpdate(u, c, name) ==
    /\ req = Idle
    /\ IF ~Permitted("update", u)
       THEN /\ last' = Step("category_update", "403", 0, 0, 0, {})
            /\ UNCHANGED categories
       ELSE IF c \notin DOMAIN categories
       THEN /\ last' = Step("category_update", "404", 0, 0, 0, {})
            /\ UNCHANGED categories
       \* CategorySerializer: name is required, not blank, and no other
       \* category has exactly this name
       ELSE IF \/ name = <<>>
               \/ \E c2 \in DOMAIN categories \ {c} : categories[c2] = name
       THEN /\ last' = Step("category_update", "400", 0, 0, 0, {"name"})
            /\ UNCHANGED categories
       ELSE /\ categories' = [categories EXCEPT ![c] = name]
            /\ last' = Step("category_update", "200", 0, 0, 0, {})
    /\ UNCHANGED <<stock, price, orders, req, inflight, products, accounts>>

\* DELETE /categories/{id}/: the category goes, and its products with it
CategoryDestroy(u, c) ==
    /\ req = Idle
    /\ IF ~Permitted("destroy", u)
       THEN /\ last' = Step("category_destroy", "403", 0, 0, 0, {})
            /\ UNCHANGED <<stock, price, orders, products, categories>>
       ELSE IF c \notin DOMAIN categories
       THEN /\ last' = Step("category_destroy", "404", 0, 0, 0, {})
            /\ UNCHANGED <<stock, price, orders, products, categories>>
       ELSE /\ categories' = [c2 \in DOMAIN categories \ {c} |->
                                 categories[c2]]
            /\ CascadeProducts({p \in DOMAIN products :
                                   products[p].category = c})
            /\ last' = Step("category_destroy", "200", 0, 0, 0, {})
    /\ UNCHANGED <<req, inflight, accounts>>

\* GET /categories/
CategoryList(u) ==
    /\ req = Idle
    /\ last' = IF Permitted("list", u)
                THEN Listing("category_list", "200", DOMAIN categories)
                ELSE Listing("category_list", "403", {})
    /\ UNCHANGED <<stock, price, orders, req>>
    /\ UNCHANGED beyond_orders

\* GET /categories/{id}/
CategoryRetrieve(u, c) ==
    /\ req = Idle
    /\ last' = IF ~Permitted("retrieve", u)
                THEN Listing("category_retrieve", "403", {})
                ELSE IF c \notin DOMAIN categories
                THEN Listing("category_retrieve", "404", {})
                ELSE Listing("category_retrieve", "200", {c})
    /\ UNCHANGED <<stock, price, orders, req>>
    /\ UNCHANGED beyond_orders

(* -------------------- RegisterView, CreateAdminView -------------------- *)
\* BaseUserManager.normalize_email: the domain part in lower case
normalize_email(email) == [email EXCEPT !.domain = Lower(@)]

\* AbstractBaseUser.normalize_username: NFKC normalisation
normalize_username(username) ==
    [i \in DOMAIN username |->
        IF username[i] = "wide_a" THEN "a" ELSE username[i]]

UsernameExists(username) ==
    \E i \in DOMAIN accounts : accounts[i].username = username

\* User.objects.filter(email=...).exists(): an exact comparison
EmailExists(email) ==
    \E i \in DOMAIN accounts : accounts[i].email = email

\* the row User.objects.create_user builds
NewUser(username, email, staff) ==
    [username |-> normalize_username(username),
     email |-> normalize_email(email),
     is_staff |-> staff]

\* the unique constraint on User.username refuses the insert
InsertRaises(user) == UsernameExists(user.username)

\* the field errors of RegisterSerializer
RegisterErrors(username, email, has_password) ==
    (IF username = <<>> \/ UsernameExists(username)
     THEN {"username"} ELSE {})
    \cup (IF ~WellFormed(email) \/ EmailExists(email)
          THEN {"email"} ELSE {})
    \cup (IF ~has_password THEN {"password"} ELSE {})

\* POST /register/
Register(username, email, has_password) ==
    /\ req = Idle
    /\ Len(accounts) < MaxAccounts
    /\ LET errors == RegisterErrors(username, email, has_password)
           user == NewUser(username, email, FALSE)
       IN  IF errors # {}
           THEN /\ last' = Step("register", "400", 0, 0, 0, errors)
                /\ UNCHANGED accounts
           ELSE IF InsertRaises(user)
           THEN /\ last' = Step("register", "500", 0, 0, 0, {})
                /\ UNCHANGED accounts
           ELSE /\ accounts' = Append(accounts, user)
                /\ last' = Step("register", "201", 0, 0, 0, {})
    /\ UNCHANGED <<stock, price, orders, req, inflight, categories, products>>

\* POST /create-admin/
CreateAdmin(u, username, email, has_password) ==
    /\ req = Idle
    /\ Len(accounts) < MaxAccounts
    /\ LET user == NewUser(username, email, TRUE)
       IN  IF ~IsAdminUser(u)
           THEN /\ last' = Step("create_admin", "403", 0, 0, 0, {})
                /\ UNCHANGED accounts
           ELSE IF username = <<>> \/ email = NoEmail \/ ~has_password
           THEN /\ last' = Step("create_admin", "400", 0, 0, 0, {"error"})
                /\ UNCHANGED accounts
           ELSE IF UsernameExists(username)
           THEN /\ last' = Step("create_admin", "400", 0, 0, 0, {"username"})
                /\ UNCHANGED accounts
           ELSE IF EmailExists(email)
           THEN /\ last' = Step("create_admin", "400", 0, 0, 0, {"email"})
                /\ UNCHANGED accounts
           ELSE IF InsertRaises(user)
           THEN /\ last' = Step("create_admin", "500", 0, 0, 0, {})
                /\ UNCHANGED accounts
           ELSE /\ accounts' = Append(accounts, user)
                /\ last' = Step("create_admin", "201", 0, 0, 0, {})
    /\ UNCHANGED <<stock, price, orders, req, inflight, categories, products>>

\* a request of user u that writes to the catalogue
CatalogueWrite(u) ==
    \/ \E name \in ProductNames \cup {<<>>}, c \in CategoryIds,
          new_price \in Prices :
            ProductCreate(u, name, c, new_price, MaxStock)
    \/ \E p \in Products, new_price \in Prices : ProductUpdate(u, p, new_price)
    \/ \E p \in Products : ProductDestroy(u, p)
    \/ \E name \in CategoryNames : CategoryCreate(u, name)
    \/ \E c \in CategoryIds, name \in CategoryNames : CategoryUpdate(u, c, name)
    \/ \E c \in CategoryIds : CategoryDestroy(u, c)

\* a request of user u that reads the catalogue
CatalogueRead(u) ==
    \/ ProductList(u)
    \/ \E p \in Products : ProductRetrieve(u, p)
    \/ CategoryList(u)
    \/ \E c \in CategoryIds : CategoryRetrieve(u, c)

(* --------------------------- reading orders ---------------------------- *)
\* the status query parameter: absent, or a status to match
StatusParams == {""} \cup STATUS_CHOICES

\* name__icontains: t occurs in s, letter case ignored
IContains(s, t) ==
    \E i \in 0..(Len(s) - Len(t)) :
        \A k \in 1..Len(t) : LowerChar(s[i + k]) = LowerChar(t[k])

\* GET /orders/: the orders of get_queryset (a page holds them all)
OrderList(u) ==
    /\ req = Idle
    /\ last' = Listing("list", "200", {o \in DOMAIN orders : Visible(u, o)})
    /\ UNCHANGED <<stock, price, orders, req>>
    /\ UNCHANGED beyond_orders

\* GET /orders/search/: the orders of get_queryset, narrowed by the query
\* parameters that are given
OrderSearch(u, status_param, product_name) ==
    /\ req = Idle
    /\ last' = Listing("search", "200",
                  {o \in DOMAIN orders :
                      /\ Visible(u, o)
                      /\ status_param # "" => orders[o].status = status_param
                      /\ product_name # <<>> =>
                            IContains(products[orders[o].product].name,
                                      product_name)})
    /\ UNCHANGED <<stock, price, orders, req>>
    /\ UNCHANGED beyond_orders

\* GET /orders/{id}/
OrderRetrieve(u, o) ==
    /\ req = Idle
    /\ last' = IF Visible(u, o) THEN Listing("retrieve", "200", {o})
                                ELSE Listing("retrieve", "404", {})
    /\ UNCHANGED <<stock, price, orders, req>>
    /\ UNCHANGED beyond_orders

(* ------------------- requests served side by side --------------------- *)
RECURSIVE SumOver(_, _)
\* the sum of f over the finite set S
SumOver(f, S) ==
    IF S = {} THEN 0
    ELSE LET x == CHOOSE x \in S : TRUE
         IN  f[x] + SumOver(f, S \ {x})

\* the orders that the requests being served have validated and not stored
Outstanding ==
    SumOver([w \in Workers |->
                IF inflight[w] = Idle THEN 0 ELSE Len(inflight[w].todo)],
            Workers)

\* POST /orders/ on worker w: validation of the whole request, against the
\* stock stored at that moment
WorkerCreate(w, u, es) ==
    /\ req = Idle
    /\ inflight[w] = Idle
    /\ Len(orders) + Outstanding + Len(es) <= MaxOrders
    /\ IF BulkValid(es)
       THEN /\ inflight' = [inflight EXCEPT ![w] =
                                [state |-> "saving", user |-> u,
                                 todo |-> ValidatedData(es)]]
            /\ last' = Step("create", "validated", 0, 0, 0, {})
       ELSE /\ inflight' = inflight
            /\ last' = Step("create", "400", 0, 0, 0, BulkErrors(es))
    /\ UNCHANGED <<stock, price, orders, req, categories, products, accounts>>

\* BulkOrderSerializer.create on worker w: Order.objects.create for the
\* next entry, with the Product instance its validation fetched
WorkerCreateEntry(w) ==
    /\ inflight[w] # Idle
    /\ inflight[w].todo # <<>>
    /\ LET order_data == Head(inflight[w].todo)
           self == NewOrder(inflight[w].user, order_data.product,
                            order_data.quantity)
       IN  IF SaveRaises(self)
           THEN /\ inflight' = [inflight EXCEPT ![w] = Idle]
                /\ last' = Step("create_entry", "ValueError", self.pk,
                                 self.quantity, 0, {})
                /\ UNCHANGED <<stock, price, orders>>
           ELSE /\ OrderSave(self)
                /\ inflight' = [inflight EXCEPT ![w].todo = Tail(@)]
                /\ last' = Step("create_entry", "saved", self.pk,
                                 self.quantity, 0, {})
    /\ UNCHANGED <<req, categories, products, accounts>>

\* the rest of OrderViewSet.create on worker w
WorkerCreateRespond(w) ==
    /\ inflight[w] # Idle
    /\ inflight[w].todo = <<>>
    /\ inflight' = [inflight EXCEPT ![w] = Idle]
    /\ last' = Step("create_response",
                     IF send_order_email_has_delay THEN "201" ELSE "500",
                     0, 0, 0, {})
    /\ UNCHANGED <<stock, price, orders, req, categories, products, accounts>>

(* ------------- two saves of one order, one after the other ------------ *)
\* Order.save on a freshly loaded order with a new quantity; the caller
\* keeps what it needs to put the quantity back, and what the database
\* held before
SaveThere(o, quantity) ==
    /\ req = Idle
    /\ o \in DOMAIN orders
    /\ LET self == [OrderInstance(o) EXCEPT !.quantity = quantity]
       IN  IF SaveRaises(self)
           THEN /\ last' = Step("save", "ValueError", o, quantity,
                                 old_quantity(self), {})
                /\ UNCHANGED <<stock, price, orders, req>>
           ELSE /\ OrderSave(self)
                /\ req' = [state |-> "round_trip", order |-> o,
                            quantity |-> orders[o].quantity,
                            stock |-> stock,
                            total_price |-> orders[o].total_price]
                /\ last' = Step("save", "returned", o, quantity,
                                 old_quantity(self), {})
    /\ UNCHANGED beyond_orders

\* the second Order.save, on the order loaded again, with the quantity it
\* had before the first
SaveBack ==
    /\ req.state = "round_trip"
    /\ LET self == [OrderInstance(req.order) EXCEPT !.quantity = req.quantity]
       IN  IF SaveRaises(self)
           THEN /\ last' = Step("save_back", "ValueError", self.pk,
                                 self.quantity, old_quantity(self), {})
                /\ UNCHANGED <<stock, price, orders>>
           ELSE /\ OrderSave(self)
                /\ last' = Step("save_back", "returned", self.pk,
                                 self.quantity, old_quantity(self), {})
    /\ req' = Idle
    /\ UNCHANGED beyond_orders

(* ------------- copies of one stored order, held side by side ---------- *)
\* the columns of the order row as Order.objects.get(pk=o) reads them: the
\* product is held by its key, and self.product is fetched on first access
LoadedOrder(o) ==
    [pk |-> o,
     user |-> orders[o].user,
     product |-> orders[o].product,
     quantity |-> orders[o].quantity,
     total_price |-> orders[o].total_price,
     status |-> orders[o].status]

\* caller w loads the order and keeps the instance
LoadCopy(w, o) ==
    /\ req = Idle
    /\ inflight[w] = Idle
    /\ o \in DOMAIN orders
    /\ inflight' = [inflight EXCEPT ![w] =
                        [state |-> "loaded", self |-> LoadedOrder(o)]]
    /\ last' = Step("load", "returned", o, 0, 0, {})
    /\ UNCHANGED <<stock, price, orders, req, categories, products, accounts>>

\* Order.cancel_order on the instance that caller w holds: the status test
\* reads the instance, self.product is fetched from the database now, and
\* the instance keeps the status it was given
CancelCopy(w) ==
    /\ req = Idle
    /\ inflight[w] # Idle
    /\ inflight[w].state = "loaded"
    /\ LET copy == inflight[w].self
           self == [copy EXCEPT !.product = ProductInstance(copy.product)]
       IN  IF AlreadyCancelled(self)
           THEN /\ last' = Step("cancel_order", "ValueError", self.pk,
                                 0, 0, {})
                /\ UNCHANGED <<stock, price, orders, inflight>>
           ELSE /\ stock' = ProductSaveStock(CancelledOrder(self).product)
                /\ price' = ProductSavePrice(CancelledOrder(self).product)
                /\ orders' = StoreOrder(CancelledOrder(self))
                /\ inflight' = [inflight EXCEPT
                                    ![w].self.status = "cancelled"]
                /\ last' = Step("cancel_order", "returned", self.pk,
                                 0, 0, {})
    /\ UNCHANGED <<req, categories, products, accounts>>

\* caller w lets go of its instance
DropCopy(w) ==
    /\ req = Idle
    /\ inflight[w] # Idle
    /\ inflight[w].state = "loaded"
    /\ inflight' = [inflight EXCEPT ![w] = Idle]
    /\ last' = Step("drop", "returned", inflight[w].self.pk, 0, 0, {})
    /\ UNCHANGED <<stock, price, orders, req, categories, products, accounts>>

\* the steps of an order-creation request
OrderCreation ==
    \/ \E u \in Users, es \in EntryLists : OrderCreate(u, es)
    \/ OrderCreateEntry
    \/ OrderCreateRespond

\* Orders over a catalogue whose prices stay as they are: the order
\* endpoints and the Order model's methods, one request or call at a time
Next ==
    \/ OrderCreation
    \/ \E u \in Users, o \in OrderIds : OrderDestroy(u, o)
    \/ \E u \in Users, o \in OrderIds, pid \in RequestProductIds,
          quantity \in Quantities : OrderUpdate(u, o, pid, quantity)
    \/ \E o \in OrderIds : CancelOrder(o)
    \/ \E o \in OrderIds, quantity \in Quantities, status \in STATUS_CHOICES :
            OrderSaveExisting(o, quantity, status)

Spec == Init /\ [][Next]_vars

\* Every caller of Order.save, with staff changing prices in between; the
\* saves of existing orders keep the stored status
NextPrice ==
    \/ OrderCreation
    \/ \E u \in Users, o \in OrderIds : OrderDestroy(u, o)
    \/ \E o \in DOMAIN orders, quantity \in Quantities :
            OrderSaveExisting(o, quantity, orders[o].status)
    \/ \E u \in Users, p \in Products, new_price \in Prices :
            ProductUpdate(u, p, new_price)

SpecPrice == Init /\ [][NextPrice]_vars

\* The order endpoints, one request at a time, with staff moving orders
\* through their statuses on the admin site in between
NextApi ==
    \/ OrderCreation
    \/ \E u \in Users, o \in OrderIds : OrderDestroy(u, o)
    \/ \E u \in Users, o \in OrderIds, pid \in RequestProductIds,
          quantity \in Quantities : OrderUpdate(u, o, pid, quantity)
    \/ \E u \in Users : OrderList(u)
    \/ \E u \in Users, status_param \in StatusParams,
          product_name \in Strings(MaxNameLen) :
            OrderSearch(u, status_param, product_name)
    \/ \E u \in Users, o \in OrderIds : OrderRetrieve(u, o)
    \/ \E o \in DOMAIN orders, status \in STATUS_CHOICES :
            OrderSaveExisting(o, orders[o].quantity, status)

SpecApi == Init /\ [][NextApi]_vars

\* The catalogue endpoints, one request at a time
NextCatalogue ==
    \/ \E u \in Users : CatalogueWrite(u)
    \/ \E u \in Users : CatalogueRead(u)

SpecCatalogue == Init /\ [][NextCatalogue]_vars

\* Registration and the creation of admin accounts, one request at a time
NextAccounts ==
    \/ \E username \in Usernames, email \in Emails, has_password \in BOOLEAN :
            Register(username, email, has_password)
    \/ \E u \in Users, username \in Usernames, email \in Emails,
          has_password \in BOOLEAN :
            CreateAdmin(u, username, email, has_password)

SpecAccounts == Init /\ [][NextAccounts]_vars

\* Order-creation requests of one entry each, served side by side: a request
\* validates against the stock it reads, and stores its order later
NextConcurrent ==
    \/ \E w \in Workers, u \in Users, e \in Entries : WorkerCreate(w, u, <<e>>)
    \/ \E w \in Workers : WorkerCreateEntry(w)
    \/ \E w \in Workers : WorkerCreateRespond(w)

SpecConcurrent == Init /\ [][NextConcurrent]_vars

\* The order endpoints and the Order model's methods, with creation requests
\* served side by side in between; the saves of existing orders keep the
\* stored status
NextInterleaved ==
    \/ \E w \in Workers, u \in Users, e \in Entries : WorkerCreate(w, u, <<e>>)
    \/ \E w \in Workers : WorkerCreateEntry(w)
    \/ \E w \in Workers : WorkerCreateRespond(w)
    \/ \E u \in Users, o \in OrderIds : OrderDestroy(u, o)
    \/ \E u \in Users, o \in OrderIds, pid \in RequestProductIds,
          quantity \in Quantities : OrderUpdate(u, o, pid, quantity)
    \/ \E o \in OrderIds : CancelOrder(o)
    \/ \E o \in DOMAIN orders, quantity \in Quantities :
            OrderSaveExisting(o, quantity, orders[o].status)

SpecInterleaved == Init /\ [][NextInterleaved]_vars

\* The order endpoints that create, update and cancel, one request at a
\* time, with nothing else touching the products
NextRequests ==
    \/ OrderCreation
    \/ \E u \in Users, o \in OrderIds : OrderDestroy(u, o)
    \/ \E u \in Users, o \in OrderIds, pid \in RequestProductIds,
          quantity \in Quantities : OrderUpdate(u, o, pid, quantity)

SpecRequests == Init /\ [][NextRequests]_vars

\* Creation and the two ways of cancelling, one request or call at a time,
\* with staff changing prices in between
NextCancel ==
    \/ OrderCreation
    \/ \E u \in Users, o \in OrderIds : OrderDestroy(u, o)
    \/ \E o \in OrderIds : CancelOrder(o)
    \/ \E u \in Users, p \in Products, new_price \in Prices :
            ProductUpdate(u, p, new_price)

SpecCancel == Init /\ [][NextCancel]_vars

\* Creation, cancel_order, and pairs of saves of one order that change its
\* quantity and put it back, over a catalogue whose prices stay as they are
NextRoundTrip ==
    \/ OrderCreation
    \/ \E o \in OrderIds : CancelOrder(o)
    \/ \E o \in OrderIds, quantity \in Quantities : SaveThere(o, quantity)
    \/ SaveBack

SpecRoundTrip == Init /\ [][NextRoundTrip]_vars

\* Orders being created and cancelled while staff delete products and
\* categories, one request at a time
NextDelete ==
    \/ OrderCreation
    \/ \E u \in Users, o \in OrderIds : OrderDestroy(u, o)
    \/ \E u \in Users, p \in Products : ProductDestroy(u, p)
    \/ \E u \in Users, c \in CategoryIds : CategoryDestroy(u, c)

SpecDelete == Init /\ [][NextDelete]_vars

\* Creation and Order.cancel_order, called on freshly loaded orders and on
\* instances that callers loaded earlier and still hold; cancel_order is
\* the only operation here that cancels an order
NextCopies ==
    \/ OrderCreation
    \/ \E o \in OrderIds : CancelOrder(o)
    \/ \E w \in Workers, o \in OrderIds : LoadCopy(w, o)
    \/ \E w \in Workers : CancelCopy(w)
    \/ \E w \in Workers : DropCopy(w)

SpecCopies == Init /\ [][NextCopies]_vars

(* ======================= properties of the orders ====================== *)

\* C1: an order-creation entry whose quantity is greater than the product's
\* current stock is rejected: the request is answered 400 and ends, no order
\* is stored and no stock changes.
C1_OverstockRejected ==
    [][last'.op = "create" =>
          \A u \in Users, es \in EntryLists :
              (/\ OrderCreate(u, es)
               /\ \E i \in DOMAIN es :
                     /\ es[i].product_id \in Products
                     /\ es[i].quantity > stock[es[i].product_id])
              => (/\ last'.code = "400"
                  /\ req' = Idle
                  /\ orders' = orders
                  /\ stock' = stock)]_vars

\* a creation request was rejected for an entry asking more than the stock
C1_Witness ==
    /\ last.op = "create"
    /\ last.code = "400"
    /\ "quantity" \in last.errors
    /\ orders = <<>>

\* C2: every successful creation of an order with quantity q for product p
\* leaves p's stored stock exactly q lower than immediately before that
\* creation, and changes no other product's stock.
C2_CreationDeductsQuantity ==
    [][(last'.op = "create_entry" /\ last'.code = "saved")
          => LET order_data == Head(req.todo)
             IN  stock' = [stock EXCEPT ![order_data.product.id] =
                                            @ - order_data.quantity]]_vars

\* C3: Order.cancel_order on an order that is not cancelled increases the
\* product's stock by exactly the order's quantity and sets the order's
\* status to 'cancelled', both in the same step.
C3_CancelRestoresStock ==
    [][(/\ last'.op = "cancel_order"
        /\ orders[last'.order].status # "cancelled")
          => (/\ last'.code = "returned"
              /\ stock' = [stock EXCEPT ![orders[last'.order].product] =
                                            @ + orders[last'.order].quantity]
              /\ orders' = [orders EXCEPT ![last'.order].status =
                                            "cancelled"])]_vars

\* cancel_order has just cancelled an order and its quantity is back in stock
C3_Witness ==
    /\ last.op = "cancel_order"
    /\ last.code = "returned"
    /\ orders[last.order].status = "cancelled"
    /\ orders[last.order].quantity = MaxStock
    /\ stock[orders[last.order].product] = MaxStock

\* C4: cancelling an order through the API (DELETE) keeps the order stored
\* with status 'cancelled' and restores the product's stock by the order's
\* quantity.
C4_DestroyRestoresStock ==
    [][(/\ last'.op = "destroy"
        /\ last'.code = "200"
        /\ orders[last'.order].status # "cancelled")
          => (/\ last'.order \in DOMAIN orders'
              /\ orders'[last'.order].status = "cancelled"
              /\ stock' = [stock EXCEPT ![orders[last'.order].product] =
                                            @ + orders[last'.order].quantity])
      ]_vars

\* C5: Order.cancel_order on an order that is already cancelled fails with
\* an error and leaves the product's stock and the order unchanged.
C5_DoubleCancelFails ==
    [][(/\ last'.op = "cancel_order"
        /\ orders[last'.order].status = "cancelled")
          => (/\ last'.code = "ValueError"
              /\ stock' = stock
              /\ price' = price
              /\ orders' = orders)]_vars

\* cancel_order has just refused an order that was already cancelled
C5_Witness ==
    /\ last.op = "cancel_order"
    /\ last.code = "ValueError"
    /\ orders[last.order].status = "cancelled"

\* C6: a DELETE on an order that is already cancelled (and that the
\* requester can reach) is answered 400 and leaves the stock unchanged; it
\* is never answered with success.
C6_DoubleDestroyRejected ==
    [][(/\ last'.op = "destroy"
        /\ last'.code # "404"
        /\ orders[last'.order].status = "cancelled")
          => (/\ last'.code = "400"
              /\ stock' = stock)]_vars

\* C7: after every successful Order.save (creation or update) the stored
\* total_price of the order equals its stored quantity multiplied by the
\* product's price as it was at that save.
C7_TotalPriceAtSave ==
    [][(\/ last'.op = "create_entry" /\ last'.code = "saved"
        \/ last'.op = "save" /\ last'.code = "returned"
        \/ last'.op \in {"destroy", "update"} /\ last'.code = "200")
          => orders'[last'.order].total_price =
                orders'[last'.order].quantity
                    * price'[orders'[last'.order].product]]_vars

\* an order was saved after the price of its product had been raised
C7_Witness ==
    /\ last.op = "save"
    /\ last.code = "returned"
    /\ last.quantity # last.old_quantity
    /\ price[orders[last.order].product] = MaxPrice
    /\ orders[last.order].total_price = MaxPrice * last.quantity

\* C8: an update request on an order whose status is not 'pending' (and
\* that the requester can reach) is rejected with 400 and leaves the order
\* and the product's stock unchanged.
C8_NonPendingUpdateRejected ==
    [][(/\ last'.op = "update"
        /\ last'.code # "404"
        /\ orders[last'.order].status # "pending")
          => (/\ last'.code = "400"
              /\ orders' = orders
              /\ stock' = stock)]_vars

\* an update of a shipped order has just been refused
C8_Witness ==
    /\ last.op = "update"
    /\ last.code = "400"
    /\ orders[last.order].status = "shipped"

\* C9: a successful Order.save of an existing order that changes its
\* quantity from q_old (the stored quantity) to q_new changes the product's
\* stock by exactly q_old - q_new.
C9_SaveAppliesDelta ==
    [][(\/ last'.op = "save" /\ last'.code = "returned"
        \/ last'.op = "destroy" /\ last'.code = "200")
          => stock' = [stock EXCEPT ![orders[last'.order].product] =
                          @ + orders[last'.order].quantity
                            - orders'[last'.order].quantity]]_vars

\* a save has just changed the quantity of an order and moved the stock
C9_Witness ==
    /\ last.op = "save"
    /\ last.code = "returned"
    /\ last.quantity # last.old_quantity
    /\ orders[last.order].quantity = last.quantity

\* C10: an update that increases an order's quantity fails exactly when
\* the increase exceeds the product's remaining stock.
C10_IncreaseFailsIffOverStock ==
    [][(/\ last'.op = "save"
        /\ last'.quantity > orders[last'.order].quantity)
          => (last'.code = "ValueError"
                <=> last'.quantity - orders[last'.order].quantity
                        > stock[orders[last'.order].product])]_vars

\* the quantities of the stored orders of product p, added up
OrderedQuantity(p) ==
    SumOver([o \in DOMAIN orders |->
                IF orders[o].product = p THEN orders[o].quantity ELSE 0],
            DOMAIN orders)

\* C11: in every reachable state, after any sequence and any interleaving
\* of order create, update and cancel operations, every product's stored
\* stock quantity is greater than or equal to 0.
C11_StockNeverNegative == \A p \in Products : stock[p] >= 0

\* a product was sold out by orders, one of them stored while another
\* creation request was being served
C11_Witness ==
    /\ \E p \in Products : stock[p] = 0
    /\ \E w \in Workers : inflight[w] # Idle
    /\ orders # <<>>

\* C13: when two order-creation requests on the same product are served
\* side by side and both succeed, the product's final stock is the initial
\* stock minus the sum of both ordered quantities, and that sum does not
\* exceed the initial stock.
C13_NoLostDeduction ==
    (\A w \in Workers : inflight[w] = Idle)
        => \A p \in Products :
              /\ stock[p] = MaxStock - OrderedQuantity(p)
              /\ OrderedQuantity(p) <= MaxStock

\* C12: Order.save is all-or-nothing: when it fails (insufficient stock)
\* neither the stored stock nor the stored order is changed, and when it
\* succeeds both the stock adjustment and the order are stored.
C12_SaveAllOrNothing ==
    [][/\ (last'.op \in {"save", "create_entry"} /\ last'.code = "ValueError")
            => (stock' = stock /\ price' = price /\ orders' = orders)
       /\ (last'.op = "save" /\ last'.code = "returned")
            => (/\ orders'[last'.order].quantity = last'.quantity
                /\ DOMAIN orders' = DOMAIN orders
                /\ stock' = [stock EXCEPT ![orders[last'.order].product] =
                                @ - (last'.quantity - last'.old_quantity)])
       /\ (last'.op = "create_entry" /\ last'.code = "saved")
            => LET order_data == Head(req.todo)
               IN  /\ Len(orders') = Len(orders) + 1
                   /\ orders'[Len(orders')].quantity = order_data.quantity
                   /\ orders'[Len(orders')].product = order_data.product.id
                   /\ stock' = [stock EXCEPT ![order_data.product.id] =
                                   order_data.product.quantity
                                       - order_data.quantity]]_vars

\* a save that asked for more than the stock has just failed
C12_Witness ==
    /\ last.op = "save"
    /\ last.code = "ValueError"
    /\ last.quantity > last.old_quantity
    /\ orders[last.order].quantity = last.old_quantity

\* the steps of the requests to the order endpoints
ApiOps ==
    {"create", "create_entry", "create_response", "destroy", "update",
     "list", "search", "retrieve"}

\* C14: once an order's status is 'cancelled' it stays 'cancelled': no API
\* request (create, update, cancel, search) changes a cancelled order's
\* status to any other value.
C14_CancelledStaysCancelled ==
    [][last'.op \in ApiOps =>
          \A o \in DOMAIN orders :
              orders[o].status = "cancelled"
                  => (/\ o \in DOMAIN orders'
                      /\ orders'[o].status = "cancelled")]_vars

\* an update request on a cancelled order has just been refused, and the
\* order is still cancelled
C14_Witness ==
    /\ last.op = "update"
    /\ last.code = "400"
    /\ orders[last.order].status = "cancelled"

\* C15: an order is mutated only while pending: no API request (update or
\* cancel) changes the status, quantity or total_price of an order whose
\* status is shipped, delivered or cancelled.
C15_MutatedOnlyWhilePending ==
    [][last'.op \in {"update", "destroy"} =>
          \A o \in DOMAIN orders :
              orders[o].status # "pending"
                  => (/\ orders'[o].status = orders[o].status
                      /\ orders'[o].quantity = orders[o].quantity
                      /\ orders'[o].total_price = orders[o].total_price)]_vars

\* C16: a non-staff user lists, searches, retrieves, updates or cancels
\* only orders they own: every order returned to or changed by a request
\* of a non-staff user has that user as owner, and a staff user reaches
\* all orders.
C16_OwnOrdersOnly ==
    [][/\ last'.op = "list" =>
             \A u \in Users :
                 OrderList(u) =>
                     IF is_staff(u) THEN last'.returned = DOMAIN orders
                     ELSE \A o \in last'.returned : orders[o].user = u
       /\ last'.op = "search" =>
             \A u \in Users, status_param \in StatusParams,
                product_name \in Strings(MaxNameLen) :
                 OrderSearch(u, status_param, product_name) =>
                     IF is_staff(u)
                     THEN (status_param = "" /\ product_name = <<>>)
                              => last'.returned = DOMAIN orders
                     ELSE \A o \in last'.returned : orders[o].user = u
       /\ last'.op = "retrieve" =>
             \A u \in Users, o \in OrderIds :
                 OrderRetrieve(u, o) =>
                     IF is_staff(u)
                     THEN o \in DOMAIN orders => last'.returned = {o}
                     ELSE \A o2 \in last'.returned : orders[o2].user = u
       /\ last'.op \in {"destroy", "update"} =>
             \A u \in Users, o \in OrderIds :
                 ((last'.op = "destroy" /\ OrderDestroy(u, o))
                    \/ (last'.op = "update" /\
                          \E pid \in RequestProductIds,
                             quantity \in Quantities :
                                OrderUpdate(u, o, pid, quantity)))
                 => IF is_staff(u)
                    THEN o \in DOMAIN orders => last'.code # "404"
                    ELSE /\ \A o2 \in DOMAIN orders :
                               orders'[o2] # orders[o2]
                                   => orders[o2].user = u
                         /\ (o \in DOMAIN orders /\ orders[o].user # u)
                               => last'.code = "404"]_vars

\* a non-staff user's DELETE on an order of somebody else has just been
\* answered 404, and the order is still pending
C16_Witness ==
    /\ last.op = "destroy"
    /\ last.code = "404"
    /\ last.order \in DOMAIN orders
    /\ orders[last.order].user = "staff"
    /\ orders[last.order].status = "pending"

\* C18: a successful bulk order creation with n entries stores exactly n
\* new orders, one per entry in the order given, each with the entry's
\* product and quantity, status 'pending', and the requesting user as
\* owner.
C18_BulkStoresOnePerEntry ==
    [][/\ (last'.op = "create" /\ last'.code = "validated") =>
             \A u \in Users, es \in EntryLists :
                 OrderCreate(u, es) =>
                     /\ req'.user = u
                     /\ Len(req'.todo) = Len(es)
                     /\ \A i \in DOMAIN es :
                           /\ req'.todo[i].product.id = es[i].product_id
                           /\ req'.todo[i].quantity = es[i].quantity
       /\ last'.op = "create_entry" =>
             /\ last'.code = "saved"
             /\ req' = [req EXCEPT !.todo = Tail(@)]
             /\ Len(orders') = Len(orders) + 1
             /\ \A o \in DOMAIN orders : orders'[o] = orders[o]
             /\ LET order == orders'[Len(orders')]
                IN  /\ order.user = req.user
                    /\ order.product = Head(req.todo).product.id
                    /\ order.quantity = Head(req.todo).quantity
                    /\ order.status = "pending"
       /\ last'.op = "create_response" =>
             (req.todo = <<>> /\ orders' = orders)]_vars

\* a request of several entries has stored the order of its first entry
\* and goes on with the next
C18_Witness ==
    /\ last.op = "create_entry"
    /\ last.code = "saved"
    /\ req # Idle
    /\ req.todo # <<>>
    /\ Len(orders) = 1
    /\ orders[1].user = req.user

(* ===================== properties of the catalogue ===================== *)

\* C17: products and categories are created, updated and deleted only by
\* staff: a create, update, partial-update or delete request on a product
\* or category made by a non-staff user is refused and leaves the catalogue
\* unchanged, while list and retrieve are allowed to any authenticated
\* user.
C17_CatalogueWrittenByStaffOnly ==
    [][/\ last'.op \in {"product_create", "product_update",
                        "product_destroy", "category_create",
                        "category_update", "category_destroy"} =>
             \A u \in Users :
                 (~is_staff(u) /\ CatalogueWrite(u))
                     => (/\ last'.code = "403"
                         /\ UNCHANGED <<categories, products, stock, price>>)
       /\ last'.op = "product_list" =>
             (last'.code = "200" /\ last'.returned = DOMAIN products)
       /\ last'.op = "category_list" =>
             (last'.code = "200" /\ last'.returned = DOMAIN categories)
       /\ last'.op = "product_retrieve" =>
             \A u \in Users, p \in DOMAIN products :
                 ProductRetrieve(u, p) =>
                     (last'.code = "200" /\ last'.returned = {p})
       /\ last'.op = "category_retrieve" =>
             \A u \in Users, c \in DOMAIN categories :
                 CategoryRetrieve(u, c) =>
                     (last'.code = "200" /\ last'.returned = {c})]_vars

\* a delete request on a category has just been refused, after staff had
\* filled the catalogue with categories
C17_Witness ==
    /\ last.op = "category_destroy"
    /\ last.code = "403"
    /\ DOMAIN categories = CategoryIds

\* C19: creating a category whose name equals an existing category's name
\* ignoring letter case is rejected with 400 and adds no category.
C19_DuplicateCategoryRejected ==
    [][last'.op = "category_create" =>
          \A u \in Users, name \in CategoryNames :
              (/\ is_staff(u)
               /\ CategoryCreate(u, name)
               /\ \E c \in DOMAIN categories :
                     Lower(categories[c]) = Lower(name))
              => (/\ last'.code = "400"
                  /\ categories' = categories)]_vars

\* a category creation has just been refused as a duplicate while a
\* category is stored whose name has a second spelling
C19_Witness ==
    /\ last.op = "category_create"
    /\ last.code = "400"
    /\ last.errors = {"message"}
    /\ \E c \in DOMAIN categories : Lower(categories[c]) # categories[c]

(* ====================== properties of the accounts ===================== *)

\* C20: after any sequence of register and create-admin requests, no two
\* stored users share the same email address or the same username.
C20_UniqueEmailAndUsername ==
    \A i, j \in DOMAIN accounts :
        i # j => (/\ accounts[i].email # accounts[j].email
                  /\ accounts[i].username # accounts[j].username)

(* ================= further properties of the orders ==================== *)

\* the quantities that the entries of a request ask of product p, added up
RequestedQuantity(es, p) ==
    SumOver([i \in DOMAIN es |->
                IF es[i].product_id = p THEN es[i].quantity ELSE 0],
            DOMAIN es)

\* C21: bulk order creation validates the whole list before storing
\* anything: if the list is missing or empty, or any single entry fails
\* validation (unknown product, or quantity greater than stock), the
\* request is rejected with 400, no order of the request is stored and no
\* product's stock changes.
C21_InvalidBulkStoresNothing ==
    [][last'.op = "create" =>
          \A u \in Users, es \in EntryLists :
              (/\ OrderCreate(u, es)
               /\ \/ es = <<>>
                  \/ \E i \in DOMAIN es :
                        IF es[i].product_id \in DOMAIN products
                        THEN es[i].quantity > stock[es[i].product_id]
                        ELSE TRUE)
              => (/\ last'.code = "400"
                  /\ req' = Idle
                  /\ orders' = orders
                  /\ stock' = stock)]_vars

\* a request naming an unknown product has just been rejected, after an
\* earlier request had stored an order
C21_Witness ==
    /\ last.op = "create"
    /\ last.code = "400"
    /\ "product_id" \in last.errors
    /\ req = Idle
    /\ Len(orders) = 1

\* C22: every order-creation request that passes validation and stores its
\* orders is answered with 201: the response that follows the last stored
\* order of a request is never an error.
C22_StoredCreationAnswered201 ==
    [][last'.op = "create_response" => last'.code = "201"]_vars

\* C23: when one bulk creation request contains several entries for the
\* same product, the entries are checked against the stock left by the
\* earlier entries of the same request: the request passes validation only
\* if the sum of their quantities is at most the product's stock.
C23_BulkEntriesShareStock ==
    [][(last'.op = "create" /\ last'.code = "validated") =>
          \A u \in Users, es \in EntryLists :
              OrderCreate(u, es) =>
                  \A p \in Products : RequestedQuantity(es, p) <= stock[p]]_vars

\* C25: an update request on a pending order is allowed only if the
\* product_id it names matches the order's existing product: a request
\* naming a different product is rejected with 400 and changes nothing, a
\* request naming the order's own product passes this check and the update
\* proceeds, and the product an order refers to never changes.
C25_OwnProductUpdateProceeds ==
    [][last'.op = "update" =>
          \A u \in Users, o \in DOMAIN orders,
             pid \in RequestProductIds \ {NoProductId},
             quantity \in Quantities :
              (/\ OrderUpdate(u, o, pid, quantity)
               /\ Visible(u, o)
               /\ orders[o].status = "pending")
              => /\ orders'[o].product = orders[o].product
                 /\ IF pid[1] # orders[o].product
                    THEN /\ last'.code = "400"
                         /\ orders' = orders
                         /\ stock' = stock
                    ELSE quantity <= stock[pid[1]] => last'.code = "200"]_vars

\* the quantities of the orders of product p that are not cancelled
NonCancelledQuantity(p) ==
    SumOver([o \in DOMAIN orders |->
                IF orders[o].product = p /\ orders[o].status # "cancelled"
                THEN orders[o].quantity ELSE 0],
            DOMAIN orders)

\* C24: stock conservation: with no admin edits to a product, after any
\* sequence of order create, update and cancel API requests processed one
\* at a time, the product's stock plus the sum of the quantities of its
\* non-cancelled orders equals the product's initial stock.
C24_StockConserved ==
    req = Idle =>
        \A p \in Products : stock[p] + NonCancelledQuantity(p) = MaxStock

\* C26: cancelling an order (by Order.cancel_order or by the API DELETE)
\* changes only the order's status and the product's stock: the order's
\* quantity and total_price keep the values they had before the
\* cancellation, even when the product's price was changed after the order
\* was last saved.
C26_CancelKeepsQuantityAndTotal ==
    [][(\/ last'.op = "destroy" /\ last'.code = "200"
        \/ last'.op = "cancel_order" /\ last'.code = "returned")
       => /\ Len(orders') = Len(orders)
          /\ orders'[last'.order].quantity = orders[last'.order].quantity
          /\ orders'[last'.order].total_price
                = orders[last'.order].total_price
          /\ \A o \in DOMAIN orders \ {last'.order} :
                orders'[o] = orders[o]]_vars

\* C27: round trip of quantity updates: if an existing order's quantity is
\* changed by Order.save from q to q' and then by a second Order.save back
\* to q, and both saves succeed, every product's stock and the order's
\* quantity and total_price (the price being the one the order was last
\* saved at) are the same as before the first save; a save that leaves the
\* quantity unchanged leaves the stock unchanged.
C27_RoundTripRestores ==
    [][/\ (last'.op = "save_back" /\ last'.code = "returned")
            => /\ stock' = req.stock
               /\ orders'[req.order].quantity = req.quantity
               /\ orders'[req.order].total_price = req.total_price
       /\ (/\ last'.op \in {"save", "save_back"}
           /\ last'.code = "returned"
           /\ last'.quantity = last'.old_quantity)
            => stock' = stock]_vars

\* an order's quantity was changed and put back by two saves, and the
\* stock in between differed from the stock after
C27_Witness ==
    /\ last.op = "save_back"
    /\ last.code = "returned"
    /\ last.quantity # last.old_quantity
    /\ req = Idle

\* C28: cancellation is idempotent-safe: for any single order, over any
\* sequence or interleaving of cancellation calls on it (including calls
\* made on separately loaded copies of the same stored order), the
\* product's stock is increased by the order's quantity at most once: a
\* cancel_order call that raises the stock acts on an order that is not
\* stored as cancelled yet.
C28_StockRestoredAtMostOnce ==
    [][(last'.op = "cancel_order" /\ stock' # stock)
       => orders[last'.order].status # "cancelled"]_vars

\* C30: orders are never hard-deleted: once an order is stored, it remains
\* stored after any sequence of API requests, including cancellation of
\* the order and deletion of its product or of the product's category by
\* an admin: no request lowers the number of stored orders.
C30_OrdersNeverDeleted ==
    [][Len(orders') >= Len(orders)]_vars

(* ===================== properties of the categories ==================== *)

\* C29: after any sequence of category create, update and delete requests,
\* no two stored categories have names that are equal ignoring letter case.
C29_CategoryNamesDifferIgnoringCase ==
    \A c, d \in DOMAIN categories :
        Lower(categories[c]) = Lower(categories[d]) => c = d

====
